---- MODULE Spec2Model ----
(***************************************************************************)
(* Model of the blog-list backend: the route handlers of                   *)
(* controllers/blogs.js running against the document store, and the        *)
(* favoriteBlog aggregate of the list helper.                              *)
(*                                                                         *)
(* Every handler is an async function: between two awaited store           *)
(* operations another request may run.  A handler is therefore modelled    *)
(* as a sequence of steps, one per awaited store operation; the            *)
(* synchronous code before an await belongs to the step that precedes it.  *)
(***************************************************************************)
EXTENDS Integers, Sequences, FiniteSets, TLC

\* ------------------------------------------------------------------ bounds
NumReqs     == 2   \* requests that may be in flight together
NumUsers    == 2   \* users present in the store
MaxBlogs    == 2   \* blog ObjectIds that may be generated
MaxComments == 2   \* comment ObjectIds that may be generated
MaxRequests == 3   \* requests received in one behaviour
MaxLen      == 3   \* length of the list handed to favoriteBlog
MaxLikes    == 2   \* largest likes value in that list

Reqs    == 1..NumReqs
UserIds == 1..NumUsers
BlogIds == 1..MaxBlogs

VARIABLES
    blogs,          \* Blog collection: _id -> document
    users,          \* User collection: _id -> document
    comments,       \* Comment collection: _id -> document
    nextBlogId,     \* next ObjectId handed out by new Blog(...)
    nextCommentId,  \* next ObjectId handed out by new Comment(...)
    req,            \* per request in flight: position in its handler and its locals
    response,       \* the answer sent by the step just taken, if it sent one
    arrived,        \* number of requests received so far
    listArg,        \* favoriteBlog: the argument
    listResult      \* favoriteBlog: the value returned

vars == <<blogs, users, comments, nextBlogId, nextCommentId, req, response, arrived, listArg, listResult>>
store == <<blogs, users, comments>>

\* ------------------------------------------------------------- credentials
\* request.token as the handler sees it: nothing, a string jwt.verify
\* rejects, or a token signed with SECRET whose payload carries the id of a
\* stored user (0: the payload has no id).
NoToken       == [kind |-> "absent", id |-> 0]
BadToken      == [kind |-> "malformed", id |-> 0]
SignedFor(u)  == [kind |-> "signed", id |-> u]
Tokens        == {NoToken, BadToken} \cup {SignedFor(u) : u \in 0..NumUsers}

\* jwt.verify(request.token, process.env.SECRET): the payload, or a throw.
jwtVerify(token) ==
    IF token.kind = "signed"
    THEN [threw |-> FALSE, id |-> token.id]
    ELSE [threw |-> TRUE, id |-> 0]

\* !request.token || !decodedToken.id
tokenMissingOrInvalid_Lax(token, decodedToken) == token.kind = "absent"
tokenMissingOrInvalid(token, decodedToken) ==
    token.kind = "absent" \/ decodedToken.id = 0

\* The error-handling middleware: the status of a request whose handler threw.
errorHandler(error) ==
    CASE error = "JsonWebTokenError" -> 401
      [] error = "ValidationError"   -> 400
      [] OTHER                       -> 500

\* ------------------------------------------------------------ request body
\* A body is a record holding exactly the fields the client sent.
Has(body, f)    == f \in DOMAIN body
BlogBodies      ==
    { [title |-> "T", url |-> "U"],
      [title |-> "T", url |-> "U", likes |-> -1],
      [url |-> "U", likes |-> 1],
      [title |-> "", url |-> "U"],
      [title |-> "T", likes |-> 0],
      [title |-> "T", url |-> ""] }
UpdateBodies    ==
    { [title |-> ""],
      [title |-> "T", url |-> "U", likes |-> 1] }
CommentBodies   == { [comment |-> "a"], [comment |-> "ab"] }

\* body.f: the value sent, or undefined
Undefined       == "undefined"
fieldOf(body, f) == IF Has(body, f) THEN body[f] ELSE Undefined

\* !body.title || !body.url
bodyInvalid_TitleOnly(body) == ~Has(body, "title") \/ body.title = ""
bodyInvalid(body) ==
    \/ ~Has(body, "title") \/ body.title = ""
    \/ ~Has(body, "url") \/ body.url = ""

\* body.likes || 0
likesOrZero(body) == IF Has(body, "likes") /\ body.likes # 0 THEN body.likes ELSE 0

\* --------------------------------------------------------------- ObjectIds
\* An ObjectId n has two string forms: its 24 character hex form
\* (oid.toString(), document.id, request.params.id) and the string made of
\* its 12 raw bytes (oid.id.toString()).
hexString(n) == <<"hex", n>>
rawString(n) == <<"raw", n>>

\* ------------------------------------------------------------ store access
NoBlog == [found |-> FALSE]
NoUser == [found |-> FALSE]

\* Blog.findById(id) / User.findById(id): the document as the handler holds it.
blogFindById(id) ==
    IF id \in DOMAIN blogs
    THEN [found |-> TRUE, id |-> id, title |-> blogs[id].title, url |-> blogs[id].url,
          likes |-> blogs[id].likes, user |-> blogs[id].user,
          comments |-> blogs[id].comments]
    ELSE NoBlog
userFindById(id) ==
    IF id \in DOMAIN users
    THEN [found |-> TRUE, id |-> id, blogs |-> users[id].blogs, v |-> users[id].v]
    ELSE NoUser

\* array.concat(x)
concat_Front(arr, x) == <<x>> \o arr
concat(arr, x) == Append(arr, x)

\* Blog.findByIdAndUpdate(id, update, { new: true }): $set of the fields the
\* update carries on the document with that _id; no upsert.
findByIdAndUpdate_Upsert(coll, id, update) ==
    LET old == IF id \in DOMAIN coll THEN coll[id]
               ELSE [title |-> "", url |-> "", likes |-> 0, user |-> 0, comments |-> <<>>]
    IN [i \in DOMAIN coll \cup {id} |->
          IF i = id THEN [f \in DOMAIN old |-> IF f \in DOMAIN update THEN update[f] ELSE old[f]]
          ELSE coll[i]]
findByIdAndUpdate(coll, id, update) ==
    IF id \in DOMAIN coll
    THEN [coll EXCEPT ![id] =
            [f \in DOMAIN coll[id] |-> IF f \in DOMAIN update THEN update[f] ELSE coll[id][f]]]
    ELSE coll

\* blog.user.toString() !== user.id.toString()
notCreator_Never(blog, user) == FALSE
notCreator(blog, user) == hexString(blog.user) # hexString(user.id)

\* user.blogs.filter((b) => b.id.toString() !== request.params.id.toString())
\* b is an ObjectId, so b.id is its 12 byte buffer.
filterBlogs(userBlogs, id) ==
    SelectSeq(userBlogs, LAMBDA b : rawString(b) # hexString(id))

\* comment: { type: String, minlength: 2 }; a validator is skipped for a
\* field that is not set.
minlength == 2
commentValid(body) == Has(body, "comment") => Len(body.comment) >= minlength

\* user.save() after user.blogs was assigned: nothing is written when the
\* array is unchanged; otherwise the whole array is $set under the version
\* the document was read with, and the save throws VersionError when the
\* stored version has moved on.
userUnmodified(user, newBlogs) == newBlogs = user.blogs
userSaveConflicts(user) == users[user.id].v # user.v
userSave(user, newBlogs) ==
    [users EXCEPT ![user.id] = [blogs |-> newBlogs, v |-> user.v + 1]]

\* ------------------------------------------------------------ list helper
\* The blogs handed to favoriteBlog: plain objects with _id, title, author,
\* url, likes and __v.
ListTitles == {"T1", "T2"}
ListBlogs  ==
    { [_id |-> t, title |-> t, author |-> "A", url |-> "U", likes |-> l, __v |-> 0] :
        t \in ListTitles, l \in 0..MaxLikes }
Lists      == UNION { [1..n -> ListBlogs] : n \in 0..MaxLen }
Null       == [null |-> TRUE]
NotCalled  == [called |-> FALSE]

\* (previousBlog, currentBlog) =>
\*     previousBlog.likes > currentBlog.likes ? previousBlog : currentBlog
reducer_KeepPrevious(previousBlog, currentBlog) ==
    IF previousBlog.likes >= currentBlog.likes THEN previousBlog ELSE currentBlog
reducer(previousBlog, currentBlog) ==
    IF previousBlog.likes > currentBlog.likes THEN previousBlog ELSE currentBlog

\* blogs.reduce(reducer) with no initial value: the fold starts from the
\* first element and visits the others from left to right.
RECURSIVE reduceFrom(_, _, _)
reduceFrom(list, i, acc) ==
    IF i > Len(list) THEN acc ELSE reduceFrom(list, i + 1, reducer(acc, list[i]))

\* const { _id, __v, url, ...maxBlog } = ...
omitIdVersionUrl(blog) == [f \in DOMAIN blog \ {"_id", "__v", "url"} |-> blog[f]]

favoriteBlog(list) ==
    IF Len(list) = 0 THEN Null
    ELSE omitIdVersionUrl(reduceFrom(list, 2, list[1]))

\* ----------------------------------------------------------------- requests
\* A request's locals: the handler it runs (op), and what the handler has
\* read or built so far: request.token, request.params.id, request.body,
\* the documents it holds, and the status it answered with.
Fresh(op, token, id, body) ==
    [pc |-> "idle", op |-> op, token |-> token, id |-> id, body |-> body,
     status |-> 0, user |-> NoUser, blog |-> NoBlog, comment |-> 0]
Idle == Fresh("none", NoToken, 0, <<>>)

\* The requests in flight take the first places, in the order they arrived.
InFlight(rs) == SelectSeq(rs, LAMBDA x : x.pc # "idle")
Compact(rs)  == [q \in Reqs |-> IF q <= Len(InFlight(rs)) THEN InFlight(rs)[q] ELSE Idle]

\* response.status(status): the request is over.
Respond(r, rec, status) ==
    /\ req' = Compact([req EXCEPT ![r] = Idle])
    /\ response' = [rec EXCEPT !.pc = "done", !.status = status]
\* The handler throws; the error-handling middleware answers.
Throw(r, rec, error) == Respond(r, rec, errorHandler(error))
\* The handler goes on to its next await.
Goto(r, rec, pc) ==
    /\ req' = [req EXCEPT ![r] = [rec EXCEPT !.pc = pc]]
    /\ UNCHANGED response
\* Request r is at pc, and the answer last sent has left.
At(r, pc) == response = Idle /\ req[r].pc = pc

\* A request arrives and its handler starts.  Requests in flight are told
\* apart only by their locals, so an arriving request takes the first free
\* place.
Arrive(r) ==
    /\ At(r, "idle")
    /\ \A q \in Reqs : q < r => req[q].pc # "idle"
    /\ arrived < MaxRequests
    /\ arrived' = arrived + 1

Init ==
    /\ blogs = <<>>
    /\ users = [u \in UserIds |-> [blogs |-> <<>>, v |-> 0]]
    /\ comments = <<>>
    /\ nextBlogId = 1
    /\ nextCommentId = 1
    /\ req = [r \in Reqs |-> Idle]
    /\ response = Idle
    /\ arrived = 0
    /\ listArg = <<>>
    /\ listResult = NotCalled

\* ------------------------------------------------ blogsRouter.post('/')
\* From the arrival of the request to the answer of User.findById, then the
\* construction of the Blog document.
PostBlog_Begin(r, token, body) ==
    /\ Arrive(r)
    /\ LET entered      == Fresh("create", token, 0, <<>>)
           rec          == [entered EXCEPT !.body = body]
           decodedToken == jwtVerify(token)
           user         == userFindById(decodedToken.id)
       IN  IF decodedToken.threw
           THEN Throw(r, entered, "JsonWebTokenError") /\ UNCHANGED nextBlogId
           ELSE IF tokenMissingOrInvalid(token, decodedToken)
           THEN Respond(r, entered, 401) /\ UNCHANGED nextBlogId
           ELSE IF bodyInvalid(body)
           THEN Respond(r, rec, 400) /\ UNCHANGED nextBlogId
           ELSE IF ~user.found
           THEN Throw(r, rec, "TypeError") /\ UNCHANGED nextBlogId
           ELSE /\ nextBlogId <= MaxBlogs
                /\ Goto(r, [rec EXCEPT !.user = user,
                               !.blog = [found |-> TRUE, id |-> nextBlogId,
                                         title |-> fieldOf(body, "title"),
                                         url |-> fieldOf(body, "url"),
                                         likes |-> likesOrZero(body), user |-> user.id,
                                         comments |-> <<>>]],
                        "create_saveBlog")
                /\ nextBlogId' = nextBlogId + 1
    /\ UNCHANGED <<store, nextCommentId, listArg, listResult>>

\* await blog.save()
PostBlog_SaveBlog(r) ==
    /\ At(r, "create_saveBlog")
    /\ LET blog == req[r].blog
       IN  blogs' = [i \in DOMAIN blogs \cup {blog.id} |->
                       IF i = blog.id
                       THEN [title |-> blog.title, url |-> blog.url, likes |-> blog.likes,
                             user |-> blog.user, comments |-> blog.comments]
                       ELSE blogs[i]]
    /\ Goto(r, req[r], "create_saveUser")
    /\ UNCHANGED <<users, comments, nextBlogId, nextCommentId, listArg, listResult, arrived>>

\* user.blogs = user.blogs.concat(savedBlog._id); await user.save()
PostBlog_SaveUser(r) ==
    /\ At(r, "create_saveUser")
    /\ LET user     == req[r].user
           newBlogs == concat(user.blogs, req[r].blog.id)
       IN  IF userSaveConflicts(user)
           THEN Throw(r, req[r], "VersionError") /\ UNCHANGED users
           ELSE /\ users' = userSave(user, newBlogs)
                /\ Respond(r, req[r], 201)
    /\ UNCHANGED <<blogs, comments, nextBlogId, nextCommentId, listArg, listResult, arrived>>

\* ---------------------------------------------- blogsRouter.put('/:id')
\* The handler has one await, the update itself; updatedBlog is what the
\* store holds afterwards, or null.
PutBlog(r, id, body) ==
    /\ Arrive(r)
    /\ blogs' = findByIdAndUpdate(blogs, id, body)
    /\ Respond(r, [Fresh("update", NoToken, id, body) EXCEPT
                      !.blog = IF id \in DOMAIN blogs'
                               THEN [found |-> TRUE, id |-> id] @@ blogs'[id]
                               ELSE NoBlog],
               200)
    /\ UNCHANGED <<users, comments, nextBlogId, nextCommentId, listArg, listResult>>

\* -------------------------------------- blogsRouter.post('/:id/comments')
\* Blog.findById, then the construction of the Comment and the concat.
PostComment_Begin(r, id, body) ==
    /\ Arrive(r)
    /\ LET entered == Fresh("comment", NoToken, id, <<>>)
           rec     == [entered EXCEPT !.body = body]
           blog    == blogFindById(id)
       IN  IF ~blog.found
           THEN Throw(r, entered, "TypeError") /\ UNCHANGED nextCommentId
           ELSE /\ nextCommentId <= MaxComments
                /\ Goto(r, [rec EXCEPT !.comment = nextCommentId,
                               !.blog = [blog EXCEPT !.comments = concat(@, nextCommentId)]],
                        "comment_save")
                /\ nextCommentId' = nextCommentId + 1
    /\ UNCHANGED <<store, nextBlogId, listArg, listResult>>

\* await comment.save()
PostComment_Save(r) ==
    /\ At(r, "comment_save")
    /\ LET rec == req[r]
       IN  IF ~commentValid(rec.body)
           THEN Throw(r, rec, "ValidationError") /\ UNCHANGED comments
           ELSE /\ comments' = [c \in DOMAIN comments \cup {rec.comment} |->
                                  IF c = rec.comment
                                  THEN [body |-> rec.body, blog |-> rec.blog.id]
                                  ELSE comments[c]]
                /\ Goto(r, rec, "comment_update")
    /\ UNCHANGED <<blogs, users, nextBlogId, nextCommentId, listArg, listResult, arrived>>

\* await Blog.findByIdAndUpdate(request.params.id, blog, { new: true })
PostComment_Update(r) ==
    /\ At(r, "comment_update")
    /\ LET blog == req[r].blog
       IN  blogs' = findByIdAndUpdate(blogs, req[r].id,
                       [title |-> blog.title, url |-> blog.url, likes |-> blog.likes,
                        user |-> blog.user, comments |-> blog.comments])
    /\ Respond(r, req[r], 200)
    /\ UNCHANGED <<users, comments, nextBlogId, nextCommentId, listArg, listResult, arrived>>

\* ------------------------------------------- blogsRouter.delete('/:id')
\* From the arrival of the request to the answer of User.findById.
Delete_Begin(r, token, id) ==
    /\ Arrive(r)
    /\ LET entered      == Fresh("delete", token, 0, <<>>)
           rec          == [entered EXCEPT !.id = id]
           decodedToken == jwtVerify(token)
       IN  IF decodedToken.threw THEN Throw(r, entered, "JsonWebTokenError")
           ELSE IF tokenMissingOrInvalid(token, decodedToken) THEN Respond(r, entered, 401)
           ELSE Goto(r, [rec EXCEPT !.user = userFindById(decodedToken.id)],
                     "delete_findBlog")
    /\ UNCHANGED <<store, nextBlogId, nextCommentId, listArg, listResult>>

\* await Blog.findById(request.params.id), then the creator check
Delete_FindBlog(r) ==
    /\ At(r, "delete_findBlog")
    /\ LET blog == blogFindById(req[r].id)
           rec  == [req[r] EXCEPT !.blog = blog]
       IN  IF ~blog.found \/ ~rec.user.found THEN Throw(r, rec, "TypeError")
           ELSE IF notCreator(blog, rec.user) THEN Respond(r, rec, 401)
           ELSE Goto(r, rec, "delete_remove")
    /\ UNCHANGED <<store, nextBlogId, nextCommentId, listArg, listResult, arrived>>

\* await blog.remove()
Delete_Remove(r) ==
    /\ At(r, "delete_remove")
    /\ blogs' = [i \in DOMAIN blogs \ {req[r].id} |-> blogs[i]]
    /\ Goto(r, req[r], "delete_saveUser")
    /\ UNCHANGED <<users, comments, nextBlogId, nextCommentId, listArg, listResult, arrived>>

\* user.blogs = user.blogs.filter(...); await user.save()
Delete_SaveUser(r) ==
    /\ At(r, "delete_saveUser")
    /\ LET user     == req[r].user
           newBlogs == filterBlogs(user.blogs, req[r].id)
       IN  IF userUnmodified(user, newBlogs)
           THEN Respond(r, req[r], 204) /\ UNCHANGED users
           ELSE IF userSaveConflicts(user)
           THEN Throw(r, req[r], "VersionError") /\ UNCHANGED users
           ELSE /\ users' = userSave(user, newBlogs)
                /\ Respond(r, req[r], 204)
    /\ UNCHANGED <<blogs, comments, nextBlogId, nextCommentId, listArg, listResult, arrived>>

Step(r) ==
    \/ \E token \in Tokens, body \in BlogBodies : PostBlog_Begin(r, token, body)
    \/ PostBlog_SaveBlog(r)
    \/ PostBlog_SaveUser(r)
    \/ \E id \in BlogIds, body \in UpdateBodies : PutBlog(r, id, body)
    \/ \E id \in BlogIds, body \in CommentBodies : PostComment_Begin(r, id, body)
    \/ PostComment_Save(r)
    \/ PostComment_Update(r)
    \/ \E token \in Tokens, id \in BlogIds : Delete_Begin(r, token, id)
    \/ Delete_FindBlog(r)
    \/ Delete_Remove(r)
    \/ Delete_SaveUser(r)

\* The answer leaves for the client.
Deliver ==
    /\ response # Idle
    /\ response' = Idle
    /\ UNCHANGED <<store, nextBlogId, nextCommentId, req, arrived, listArg, listResult>>

Next == (\E r \in Reqs : Step(r)) \/ Deliver

Spec == Init /\ [][Next]_vars

\* Requests served one at a time: only the first place is ever taken, so a
\* request arrives only when none is in flight.
NextSerial == Step(1) \/ Deliver

SpecSerial == Init /\ [][NextSerial]_vars

\* favoriteBlog applied to every list within the bounds.
InitList ==
    /\ blogs = <<>>
    /\ users = [u \in UserIds |-> [blogs |-> <<>>, v |-> 0]]
    /\ comments = <<>>
    /\ nextBlogId = 1
    /\ nextCommentId = 1
    /\ req = [r \in Reqs |-> Idle]
    /\ response = Idle
    /\ arrived = 0
    /\ listArg \in Lists
    /\ listResult = NotCalled

CallFavoriteBlog ==
    /\ listResult = NotCalled
    /\ listResult' = [called |-> TRUE, value |-> favoriteBlog(listArg)]
    /\ UNCHANGED <<store, nextBlogId, nextCommentId, req, response, arrived, listArg>>

NextList == CallFavoriteBlog

SpecList == InitList /\ [][NextList]_vars

\* ================================================================ claims
Range(seq)         == { seq[i] : i \in DOMAIN seq }
Sent(op)           == response.pc = "done" /\ response.op = op
ValidCredential(t) == t.kind = "signed" /\ t.id \in UserIds
NoIdentity(t)      == t.kind \in {"absent", "malformed"} \/ t.id = 0
LacksTitleOrUrl(b) ==
    \/ "title" \notin DOMAIN b \/ b.title = ""
    \/ "url" \notin DOMAIN b \/ b.url = ""
\* No request holds a Blog document it has built but not saved under id.
NotBeingCreated(id) ==
    \A r \in Reqs : ~(req[r].pc = "create_saveBlog" /\ req[r].blog.id = id)

\* C1: a Delete with a valid credential of a blog id that is not in the
\* store answers 204 and leaves every blog and every user's blogs as they
\* were.
C1_DeleteMissingIs204 ==
    [][ ( /\ Sent("delete")'
          /\ ValidCredential(response'.token)
          /\ ~response'.blog.found )
        => ( /\ response'.status = 204
             /\ blogs' = blogs
             /\ users' = users ) ]_vars

\* C2: a Delete of a stored blog by an authenticated user who is not the
\* blog's user answers 401; the blog stays in the store with the same
\* fields and no user's blogs changes.
C2_DeleteByOtherUserIs401 ==
    [][ ( /\ Sent("delete")'
          /\ response'.blog.found
          /\ response'.user.found
          /\ response'.blog.user # response'.user.id )
        => ( /\ response'.status = 401
             /\ response'.id \in DOMAIN blogs'
             /\ blogs' = blogs
             /\ users' = users ) ]_vars

C2_Witness ==
    /\ Sent("delete")
    /\ response.blog.found
    /\ response.user.found
    /\ response.blog.user # response.user.id
    /\ response.status = 401
    /\ response.id \in DOMAIN blogs
    /\ blogs[response.id].user = response.blog.user

\* C3: whenever no Create and no Delete is part-way through, blog b is in
\* user u's blogs exactly when b is stored with user u.
C3_BlogsInSync ==
    (\A r \in Reqs : req[r].op \notin {"create", "delete"})
    => \A u \in UserIds, b \in BlogIds :
          (b \in Range(users[u].blogs)) <=> (b \in DOMAIN blogs /\ blogs[b].user = u)

C5_CreateWithoutTitleOrUrlIs400 ==
    [][ ( /\ Sent("create")'
          /\ ValidCredential(response'.token)
          /\ LacksTitleOrUrl(response'.body) )
        => ( /\ response'.status = 400
             /\ blogs' = blogs
             /\ users' = users ) ]_vars

C5_Witness ==
    /\ Sent("create")
    /\ ValidCredential(response.token)
    /\ "title" \in DOMAIN response.body
    /\ response.body.title # ""
    /\ "url" \notin DOMAIN response.body
    /\ response.status = 400

\* C6: an Update of an id that is not in the store answers 200 with a null
\* blog and changes nothing: the store holds the same blogs with the same
\* fields, and none under that id.
C6_UpdateMissingChangesNothing ==
    [][ ( /\ Sent("update")'
          /\ response'.id \notin DOMAIN blogs )
        => ( /\ response'.status = 200
             /\ ~response'.blog.found
             /\ blogs' = blogs
             /\ users' = users
             /\ comments' = comments ) ]_vars

\* The id was stored and deleted before the Update.
C6_Witness ==
    /\ Sent("update")
    /\ response.id < nextBlogId
    /\ NotBeingCreated(response.id)
    /\ response.id \notin DOMAIN blogs
    /\ ~response.blog.found
    /\ response.status = 200

\* C7: with requests served one at a time, an Add Comment with a text of
\* two characters or more on a stored blog stores exactly one new comment,
\* which refers to that blog, and then writes the blog back with that
\* comment's id appended to the comments it had; no other blog changes.
C7_CommentAppended ==
    [][ \A r \in Reqs :
          /\ ( /\ req[r].pc = "comment_save"
               /\ req'[r] # req[r]
               /\ "comment" \in DOMAIN req[r].body
               /\ Len(req[r].body.comment) >= 2 )
             => ( /\ req[r].comment \notin DOMAIN comments
                  /\ DOMAIN comments' = DOMAIN comments \cup {req[r].comment}
                  /\ comments'[req[r].comment].blog = req[r].id
                  /\ \A c \in DOMAIN comments : comments'[c] = comments[c]
                  /\ blogs' = blogs
                  /\ req'[r].pc = "comment_update" )
          /\ ( /\ req[r].pc = "comment_update"
               /\ req'[r] # req[r] )
             => ( /\ req[r].id \in DOMAIN blogs
                  /\ DOMAIN blogs' = DOMAIN blogs
                  /\ blogs'[req[r].id].comments =
                        Append(blogs[req[r].id].comments, req[r].comment)
                  /\ Len(blogs'[req[r].id].comments) = Len(blogs[req[r].id].comments) + 1
                  /\ \A b \in DOMAIN blogs \ {req[r].id} : blogs'[b] = blogs[b]
                  /\ comments' = comments
                  /\ comments[req[r].comment].blog = req[r].id
                  /\ response'.status = 200 ) ]_vars

\* A second comment has been appended behind the first.
C7_Witness ==
    /\ Sent("comment")
    /\ response.status = 200
    /\ response.id \in DOMAIN blogs
    /\ Len(blogs[response.id].comments) = 2
    /\ blogs[response.id].comments[2] = response.comment
    /\ response.comment \in DOMAIN comments

\* C8: every stored blog has a non-empty title, a non-empty url and likes
\* that are not negative.
C8_StoredBlogsWellFormed ==
    \A b \in DOMAIN blogs :
        /\ blogs[b].title # ""
        /\ blogs[b].url # ""
        /\ blogs[b].likes >= 0

\* C9: favoriteBlog returns null for the empty list, and otherwise the blog
\* with the most likes, stripped of _id, __v and url; among several blogs
\* with the most likes it returns (as claimed) the earliest, (as amended)
\* the latest in the list.
MaxLikesOf(list) == CHOOSE m \in { list[i].likes : i \in DOMAIN list } :
                        \A i \in DOMAIN list : list[i].likes <= m
MaximalAt(list)  == { i \in DOMAIN list : list[i].likes = MaxLikesOf(list) }
FirstMaximal(list) == list[CHOOSE i \in MaximalAt(list) : \A j \in MaximalAt(list) : i <= j]
LastMaximal(list)  == list[CHOOSE i \in MaximalAt(list) : \A j \in MaximalAt(list) : j <= i]
Stripped(blog) == [title |-> blog.title, author |-> blog.author, likes |-> blog.likes]

C9_FavoriteIsFirstMaximal ==
    listResult.called =>
        listResult.value =
            IF listArg = <<>> THEN Null ELSE Stripped(FirstMaximal(listArg))

C9_FavoriteIsLastMaximal ==
    listResult.called =>
        listResult.value =
            IF listArg = <<>> THEN Null ELSE Stripped(LastMaximal(listArg))

\* Two blogs with the most likes and different titles: the later one is
\* returned.
C9_Witness ==
    /\ listResult.called
    /\ Len(listArg) >= 2
    /\ Cardinality(MaximalAt(listArg)) >= 2
    /\ FirstMaximal(listArg).title # LastMaximal(listArg).title
    /\ listResult.value.title = LastMaximal(listArg).title

\* C10: once no Add Comment is in flight, every stored comment's id is in
\* the comments of the blog it refers to, when that blog is stored.
C10_NoCommentLost ==
    (\A r \in Reqs : req[r].op # "comment")
    => \A c \in DOMAIN comments :
          comments[c].blog \in DOMAIN blogs
          => c \in Range(blogs[comments[c].blog].comments)

====
